---- MODULE Spec2Model ----
(***************************************************************************)
(* The RFP processing pipeline of Backend/questions: the request handler   *)
(* process_rfp, the thread-backed pipeline _process_rfp_background with    *)
(* its ThreadPoolExecutor fan-out, and the queue-backed pipeline           *)
(* process_kb_documents_step -> extract_and_generate_step -> chord of      *)
(* generate_answer_for_question -> collect_answers_results.                *)
(*                                                                         *)
(* A deployment is one value of USE_CELERY (views.py:14).  Every variable  *)
(* is indexed by the deployment, so that the two pipelines can be run on   *)
(* the same request and compared.                                          *)
(***************************************************************************)
EXTENDS Integers, Sequences, FiniteSets, TLC

\* ---------------------------------------------------------------- bounds
MaxKb == 1
MaxQ == 2

\* ------------------------------------------------------ program constants
BATCH_SIZE == 5
MAX_RETRIES == 3

Deployments == {"thread", "celery"}

USE_CELERY(d) == d = "celery"

Terminal == {"completed", "failed"}

\* Outcome of handling one knowledge-base id: the Document row is missing,
\* it is already processed, process_document_for_rag returns True or False,
\* or an exception is raised while the document is handled.
KbOutcomes == {"missing", "processed", "ok", "reject", "raise"}

\* Outcome of the executions of one answer-generation attempt:
\*   ok       every execution succeeds
\*   flaky    the first execution raises, later ones succeed
\*   fail     every execution raises before the Answer row is written
\*   progfail the Answer row is written, the progress update raises
AttemptPlans == {"ok", "flaky", "fail", "progfail"}

SeqsUpTo(S, n) == UNION {[1..k -> S] : k \in 0..n}

VARIABLES
    env,              \* the request and the outcome of every external call
    kbLeft,           \* outcomes awaiting the knowledge-base ids not yet handled
    live,             \* the deployments that receive the request
    pc,               \* position of each deployment's pipeline
    task,             \* the persisted ProcessingTask row
    kbIdx,            \* ingestion loop: number of knowledge-base ids handled
    docs,             \* Document.processed of each knowledge-base id
    questions,        \* Question rows of the RFP document
    answers,          \* Answer rows (by question id)
    nextId,           \* the Question table's autoincrement
    created_questions,\* ids created by this run, in question_number order
    att,              \* the generation attempt of each question
    completed_count,  \* process_single_question's nonlocal counter
    progress_lock,    \* holder of progress_lock (0: free)
    answers_data      \* answer payloads collected for the result

\* The parts of the program examined on their own, each with its own
\* specification below; the pipeline leaves them alone.
VARIABLES
    pool,             \* fan-out: the attempts of one Generate stage and their pool
    ing,              \* ingestion: one Document row and the code handling it
    ext,              \* extraction: one RFP document's rows and the runs on it
    ans,              \* answers: one Question's Answer rows and their writers
    call,             \* the arguments and result of one call of a function
    sweep             \* cleanup: the ProcessingTask rows and the clock

sideVars == <<pool, ing, ext, ans, call, sweep>>

pipeVars == <<env, kbLeft, live, pc, task, kbIdx, docs, questions, answers, nextId,
              created_questions, att, completed_count, progress_lock, answers_data>>

vars == <<pipeVars, sideVars>>

dbVars == <<docs, questions, answers, nextId>>

genVars == <<att, completed_count, progress_lock, answers_data>>

\* ------------------------------------------------------------ data model
Step(label, done, total) == [label |-> label, done |-> done, total |-> total]

NoResult == [present |-> FALSE, questions_count |-> 0, answers_count |-> 0,
             answers |-> <<>>]

NoTask == [status |-> "none", progress |-> 0, current_step |-> Step("", 0, 0),
           result |-> NoResult, error |-> ""]

NoAttempt == [st |-> "none", retries |-> 0, cnt |-> 0]

\* Rows left by an earlier extraction of the same RFP document.
PriorQuestions == {[id |-> 1, question_number |-> 1]}

N(d) == Len(created_questions[d])

QuestionOf(d, i) == created_questions[d][i]

Plan(i) == env.plan[i]

Envs ==
    {e \in [rfp : {"missing", "notext", "ok"},
            plan : SeqsUpTo(AttemptPlans, MaxQ),
            generate_answers : BOOLEAN] :
        /\ (e.rfp # "ok" => e.plan = <<>>)
        /\ (~e.generate_answers => \A i \in 1..Len(e.plan) : e.plan[i] = "ok")}

Idle == [active |-> FALSE]

SideIdle ==
    /\ pool = Idle
    /\ ing = Idle
    /\ ext = Idle
    /\ ans = Idle
    /\ call = Idle
    /\ sweep = Idle

InitWith(L) ==
    /\ SideIdle
    /\ env \in Envs
    /\ \E kb \in SeqsUpTo(KbOutcomes, MaxKb) :
          /\ kbLeft = [d \in Deployments |-> IF d \in L THEN kb ELSE <<>>]
          /\ docs = [d \in Deployments |->
                       IF d \in L THEN [k \in 1..Len(kb) |-> kb[k] = "processed"]
                                  ELSE <<>>]
    /\ live = L
    /\ pc = [d \in Deployments |-> "request"]
    /\ task = [d \in Deployments |-> NoTask]
    /\ kbIdx = [d \in Deployments |-> 0]
    /\ \E prior \in SUBSET PriorQuestions :
          /\ questions = [d \in Deployments |-> prior]
          /\ answers = [d \in Deployments |-> {q.id : q \in prior}]
    /\ nextId = [d \in Deployments |-> 2]
    /\ created_questions = [d \in Deployments |-> <<>>]
    /\ att = [d \in Deployments |-> [i \in 1..MaxQ |-> NoAttempt]]
    /\ completed_count = [d \in Deployments |-> 0]
    /\ progress_lock = [d \in Deployments |-> 0]
    /\ answers_data = [d \in Deployments |-> <<>>]

Init == \E d \in Deployments : InitWith({d})

\* The deployment whose pipeline may take a step.  When both deployments
\* receive the request, the queue-backed one runs after the thread-backed
\* one has finished: the two share nothing.
Turn(d) ==
    /\ d \in live
    /\ (d = "celery" /\ "thread" \in live) => task["thread"].status \in Terminal

\* ------------------------------------------------------------ process_rfp
process_rfp_create(d) ==
    /\ Turn(d)
    /\ pc[d] = "request"
    /\ task' = [task EXCEPT ![d] =
                  [NoTask EXCEPT !.status = "pending", !.progress = 0,
                       !.current_step = Step("Starting processing...", 0, 0)]]
    /\ pc' = [pc EXCEPT ![d] = "dispatch"]
    /\ UNCHANGED <<sideVars, env, kbLeft, live, kbIdx, dbVars, created_questions, genVars>>

process_rfp_dispatch(d) ==
    /\ Turn(d)
    /\ pc[d] = "dispatch"
    /\ IF USE_CELERY(d)
         THEN /\ task' = [task EXCEPT ![d].status = "processing"]
              /\ pc' = [pc EXCEPT ![d] = "kb_step"]
         ELSE /\ pc' = [pc EXCEPT ![d] = "bg_start"]
              /\ UNCHANGED task
    /\ UNCHANGED <<sideVars, env, kbLeft, live, kbIdx, dbVars, created_questions, genVars>>

\* ------------------------------------------------ shared pipeline pieces
\* int((idx / len(kb_ids)) * 30), int((c / n) * 50), int((c / n) * 45):
\* for the sizes modelled the float product truncates to the integer floor.
IntScale(c, n, k) == (c * k) \div n

\* The message stored without the status.
FailTaskErrorOnly(d, msg) ==
    /\ task' = [task EXCEPT ![d].error = msg]
    /\ pc' = [pc EXCEPT ![d] = "done"]

\* The except handlers of both pipelines: reload the row, mark it failed.
FailTask(d, msg) ==
    /\ task' = [task EXCEPT ![d].status = "failed", ![d].error = msg]
    /\ pc' = [pc EXCEPT ![d] = "done"]

\* One knowledge-base id: process_document_for_rag runs for an unprocessed
\* document and the flag is set when it returns True.
IngestFlag(d, idx) ==
    IF ~docs[d][idx] /\ Head(kbLeft[d]) = "ok" THEN TRUE ELSE docs[d][idx]

\* len(kb_ids)
KbCount(d) == Len(docs[d])

NewQuestions(d) ==
    {[id |-> nextId[d] + i - 1, question_number |-> i] : i \in 1..Len(env.plan)}

\* Question.objects.filter(rfp_document=rfp_doc).delete() cascades to the
\* answers; the new rows are created numbered from 1.
StoreQuestions(d) ==
    /\ questions' = [questions EXCEPT ![d] = NewQuestions(d)]
    /\ answers' = [answers EXCEPT ![d] = {}]
    /\ nextId' = [nextId EXCEPT ![d] = nextId[d] + Len(env.plan)]
    /\ created_questions' = [created_questions EXCEPT ![d] =
                               [i \in 1..Len(env.plan) |-> nextId[d] + i - 1]]

ExtractError ==
    CASE env.rfp = "missing" -> "RFP document not found"
      [] env.rfp = "notext" -> "Failed to extract text from RFP document"
      [] env.plan = <<>> -> "No questions found in RFP document"
      [] OTHER -> ""

AnswerData(d, i) == [question |-> QuestionOf(d, i), question_number |-> i]

\* The question count reported as the answer count.
FinalResultMiscount(d, qcount, data) ==
    [present |-> TRUE, questions_count |-> qcount, answers_count |-> qcount,
     answers |-> data]

FinalResult(d, qcount, data) ==
    [present |-> TRUE, questions_count |-> qcount, answers_count |-> Len(data),
     answers |-> data]

WriteCompleted(d, qcount, data) ==
    /\ task' = [task EXCEPT ![d].status = "completed", ![d].progress = 100,
                    ![d].current_step = Step("Processing complete", 0, 0),
                    ![d].result = FinalResult(d, qcount, data)]
    /\ pc' = [pc EXCEPT ![d] = "done"]

Unfinished == {"queued", "running", "saved", "inlock", "counted", "retry"}

\* Building and saving the final record: it is written, or a statement on
\* the way (a query, task.save()) raises.
FinalizeOutcomes == {"ok", "raise"}

FinalizeError == "error while writing the result"

\* ------------------------------------------- _process_rfp_background
\* The worker starts without marking the task processing.
bg_start_unmarked(d) ==
    /\ Turn(d)
    /\ pc[d] = "bg_start"
    /\ pc' = [pc EXCEPT ![d] =
                IF KbCount(d) > 0 THEN "bg_kb_begin" ELSE "bg_extract_begin"]
    /\ UNCHANGED <<sideVars, env, kbLeft, live, task, kbIdx, dbVars, created_questions,
                   genVars>>

bg_start(d) ==
    /\ Turn(d)
    /\ pc[d] = "bg_start"
    /\ task' = [task EXCEPT ![d].status = "processing"]
    /\ pc' = [pc EXCEPT ![d] =
                IF KbCount(d) > 0 THEN "bg_kb_begin" ELSE "bg_extract_begin"]
    /\ UNCHANGED <<sideVars, env, kbLeft, live, kbIdx, dbVars, created_questions, genVars>>

\* The loop over kb_ids left out: Extract follows the step label at once.
bg_kb_begin_skips_loop(d) ==
    /\ Turn(d)
    /\ pc[d] = "bg_kb_begin"
    /\ task' = [task EXCEPT ![d].progress = 10,
                    ![d].current_step =
                        Step("Processing knowledge base documents", 0, KbCount(d))]
    /\ pc' = [pc EXCEPT ![d] = "bg_extract_begin"]
    /\ UNCHANGED <<sideVars, env, kbLeft, live, kbIdx, dbVars, created_questions, genVars>>

bg_kb_begin(d) ==
    /\ Turn(d)
    /\ pc[d] = "bg_kb_begin"
    /\ task' = [task EXCEPT ![d].progress = 10,
                    ![d].current_step =
                        Step("Processing knowledge base documents", 0, KbCount(d))]
    /\ pc' = [pc EXCEPT ![d] = "bg_kb_loop"]
    /\ UNCHANGED <<sideVars, env, kbLeft, live, kbIdx, dbVars, created_questions, genVars>>

bg_kb_doc(d) ==
    /\ Turn(d)
    /\ pc[d] = "bg_kb_loop"
    /\ LET idx == kbIdx[d] + 1 IN
         IF Head(kbLeft[d]) = "raise" /\ ~docs[d][idx]
           THEN /\ FailTask(d, "error while processing knowledge base document")
                /\ UNCHANGED <<kbIdx, docs, kbLeft>>
           ELSE /\ kbLeft' = [kbLeft EXCEPT ![d] = Tail(@)]
                /\ docs' = [docs EXCEPT ![d][idx] = IngestFlag(d, idx)]
                /\ kbIdx' = [kbIdx EXCEPT ![d] = idx]
                /\ task' = [task EXCEPT ![d].progress =
                                10 + IntScale(idx, KbCount(d), 30)]
                /\ pc' = [pc EXCEPT ![d] =
                            IF idx = KbCount(d) THEN "bg_extract_begin"
                                                 ELSE "bg_kb_loop"]
    /\ UNCHANGED <<sideVars, env, live, questions, answers, nextId, created_questions,
                   genVars>>

bg_extract_begin(d) ==
    /\ Turn(d)
    /\ pc[d] = "bg_extract_begin"
    /\ task' = [task EXCEPT ![d].progress = 40,
                    ![d].current_step = Step("Extracting questions from RFP", 0, 0)]
    /\ pc' = [pc EXCEPT ![d] = "bg_extract"]
    /\ UNCHANGED <<sideVars, env, kbLeft, live, kbIdx, dbVars, created_questions, genVars>>

bg_extract(d) ==
    /\ Turn(d)
    /\ pc[d] = "bg_extract"
    /\ IF ExtractError # ""
         THEN /\ FailTask(d, ExtractError)
              /\ UNCHANGED <<questions, answers, nextId, created_questions>>
         ELSE /\ StoreQuestions(d)
              /\ pc' = [pc EXCEPT ![d] = "bg_progress50"]
              /\ UNCHANGED task
    /\ UNCHANGED <<sideVars, env, kbLeft, live, kbIdx, docs, genVars>>

bg_progress50(d) ==
    /\ Turn(d)
    /\ pc[d] = "bg_progress50"
    /\ task' = [task EXCEPT ![d].progress = 50]
    /\ pc' = [pc EXCEPT ![d] = "bg_gen"]
    /\ UNCHANGED <<sideVars, env, kbLeft, live, kbIdx, dbVars, created_questions, genVars>>

\* generate_answers: the step label is saved and every question is
\* submitted to the executor; otherwise the pipeline goes on to finalize.
bg_gen(d) ==
    /\ Turn(d)
    /\ pc[d] = "bg_gen"
    /\ IF env.generate_answers
         THEN /\ task' = [task EXCEPT ![d].current_step =
                              Step("Generating answers", 0, N(d))]
              /\ att' = [att EXCEPT ![d] =
                           [i \in 1..MaxQ |->
                              IF i <= N(d) THEN [NoAttempt EXCEPT !.st = "queued"]
                                           ELSE NoAttempt]]
              /\ pc' = [pc EXCEPT ![d] = "bg_pool"]
         ELSE /\ pc' = [pc EXCEPT ![d] = "bg_finalize"]
              /\ UNCHANGED <<task, att>>
    /\ UNCHANGED <<sideVars, env, kbLeft, live, kbIdx, dbVars, created_questions,
                   completed_count, progress_lock, answers_data>>

\* The pool left as soon as one future is done.
AnyFutureDone(d) == \E i \in 1..N(d) : att[d][i].st \notin Unfinished

\* Leaving the ThreadPoolExecutor block joins every worker: as_completed
\* has yielded every future.
AllFuturesDone(d) == \A i \in 1..N(d) : att[d][i].st \notin Unfinished

bg_finalize(d) ==
    /\ Turn(d)
    /\ \/ pc[d] = "bg_finalize"
       \/ pc[d] = "bg_pool" /\ AllFuturesDone(d)
    /\ \E outcome \in FinalizeOutcomes :
          IF outcome = "raise"
            THEN FailTask(d, FinalizeError)
            ELSE WriteCompleted(d, N(d), answers_data[d])
    /\ UNCHANGED <<sideVars, env, kbLeft, live, kbIdx, dbVars, created_questions, genVars>>

\* ----------------------------------------------- process_single_question
\* Workers of the ThreadPoolExecutor that are running a question.
WorkersBusy(d) ==
    Cardinality({i \in 1..N(d) : att[d][i].st \in {"running", "saved", "inlock"}})

WorkerFree(d) == WorkersBusy(d) < BATCH_SIZE

ps_start(d, i) ==
    /\ Turn(d)
    /\ ~USE_CELERY(d)
    /\ att[d][i].st = "queued"
    /\ WorkerFree(d)
    /\ att' = [att EXCEPT ![d][i].st = "running"]
    /\ UNCHANGED <<sideVars, env, kbLeft, live, pc, task, kbIdx, dbVars, created_questions,
                   completed_count, progress_lock, answers_data>>

\* The worker's exception left to reach the pipeline's except handler.
ps_except_propagates(d, i) ==
    /\ att' = [att EXCEPT ![d][i].st = "failed"]
    /\ FailTask(d, "error processing question")

\* except Exception: the error is logged and None is returned.
ps_except(d, i) ==
    /\ att' = [att EXCEPT ![d][i].st = "failed"]
    /\ UNCHANGED <<pc, task>>

\* generate_answer and Answer.objects.update_or_create.
ps_generate(d, i) ==
    /\ Turn(d)
    /\ ~USE_CELERY(d)
    /\ att[d][i].st = "running"
    /\ IF Plan(i) \in {"ok", "progfail"}
         THEN /\ answers' = [answers EXCEPT ![d] = @ \cup {QuestionOf(d, i)}]
              /\ att' = [att EXCEPT ![d][i].st = "saved"]
              /\ UNCHANGED <<pc, task>>
         ELSE /\ ps_except(d, i)
              /\ UNCHANGED answers
    /\ UNCHANGED <<sideVars, env, kbLeft, live, kbIdx, docs, questions, nextId, created_questions,
                   completed_count, progress_lock, answers_data>>

LockFree(d) == progress_lock[d] = 0

\* with progress_lock: completed_count += 1; task.refresh_from_db().  An
\* exception inside the block releases the lock and the worker returns None.
ps_lock(d, i) ==
    /\ Turn(d)
    /\ ~USE_CELERY(d)
    /\ att[d][i].st = "saved"
    /\ LockFree(d)
    /\ completed_count' = [completed_count EXCEPT ![d] = @ + 1]
    /\ IF Plan(i) = "progfail"
         THEN /\ ps_except(d, i)
              /\ UNCHANGED progress_lock
         ELSE /\ att' = [att EXCEPT ![d][i].st = "inlock"]
              /\ progress_lock' = [progress_lock EXCEPT ![d] = i]
              /\ UNCHANGED <<pc, task>>
    /\ UNCHANGED <<sideVars, env, kbLeft, live, kbIdx, dbVars, created_questions, answers_data>>

\* A payload dropped in place of the list (answers_data = [result]).
CollectLast(data, result) == <<result>>

\* for future in as_completed(...): if result: answers_data.append(result)
Collect(data, result) == Append(data, result)

ThreadProgress(d) == 50 + IntScale(completed_count[d], N(d), 50)

\* task.progress, task.current_step, task.save(); the lock is released and
\* the payload returned, which the main thread appends to answers_data.
ps_write(d, i) ==
    /\ Turn(d)
    /\ ~USE_CELERY(d)
    /\ att[d][i].st = "inlock"
    /\ task' = [task EXCEPT ![d].progress = ThreadProgress(d),
                    ![d].current_step = Step("Generated", completed_count[d], N(d))]
    /\ progress_lock' = [progress_lock EXCEPT ![d] = 0]
    /\ att' = [att EXCEPT ![d][i].st = "ok"]
    /\ answers_data' = [answers_data EXCEPT ![d] = Collect(@, AnswerData(d, i))]
    /\ UNCHANGED <<sideVars, env, kbLeft, live, pc, kbIdx, dbVars, created_questions,
                   completed_count>>

\* ------------------------------------------- process_kb_documents_step
\* The step label and progress 10 saved before kb_ids is tested.
kb_step_begin_unguarded(d) ==
    /\ Turn(d)
    /\ pc[d] = "kb_step"
    /\ task' = [task EXCEPT ![d].progress = 10,
                    ![d].current_step =
                        Step("Processing knowledge base documents", 0, KbCount(d))]
    /\ pc' = [pc EXCEPT ![d] = IF KbCount(d) = 0 THEN "extract_step" ELSE "kb_loop"]
    /\ UNCHANGED <<sideVars, env, kbLeft, live, kbIdx, dbVars, created_questions, genVars>>

kb_step_begin(d) ==
    /\ Turn(d)
    /\ pc[d] = "kb_step"
    /\ IF KbCount(d) = 0
         THEN /\ pc' = [pc EXCEPT ![d] = "extract_step"]
              /\ UNCHANGED task
         ELSE /\ task' = [task EXCEPT ![d].progress = 10,
                              ![d].current_step =
                                  Step("Processing knowledge base documents", 0,
                                       KbCount(d))]
              /\ pc' = [pc EXCEPT ![d] = "kb_loop"]
    /\ UNCHANGED <<sideVars, env, kbLeft, live, kbIdx, dbVars, created_questions, genVars>>

\* One iteration of the loop: an exception is caught and logged.
kb_step_doc(d) ==
    /\ Turn(d)
    /\ pc[d] = "kb_loop"
    /\ LET idx == kbIdx[d] + 1 IN
         /\ kbLeft' = [kbLeft EXCEPT ![d] = Tail(@)]
         /\ docs' = [docs EXCEPT ![d][idx] = IngestFlag(d, idx)]
         /\ kbIdx' = [kbIdx EXCEPT ![d] = idx]
         /\ pc' = [pc EXCEPT ![d] =
                     IF idx = KbCount(d) THEN "extract_step" ELSE "kb_loop"]
    /\ UNCHANGED <<sideVars, env, live, task, questions, answers, nextId,
                   created_questions, genVars>>

\* ------------------------------------------- extract_and_generate_step
extract_step_begin(d) ==
    /\ Turn(d)
    /\ pc[d] = "extract_step"
    /\ task' = [task EXCEPT ![d].progress = 40,
                    ![d].current_step = Step("Extracting questions from RFP", 0, 0)]
    /\ pc' = [pc EXCEPT ![d] = "extract_step_run"]
    /\ UNCHANGED <<sideVars, env, kbLeft, live, kbIdx, dbVars, created_questions, genVars>>

extract_step_run(d) ==
    /\ Turn(d)
    /\ pc[d] = "extract_step_run"
    /\ IF ExtractError # ""
         THEN /\ FailTask(d, ExtractError)
              /\ UNCHANGED <<questions, answers, nextId, created_questions>>
         ELSE /\ StoreQuestions(d)
              /\ pc' = [pc EXCEPT ![d] = "extract_step_50"]
              /\ UNCHANGED task
    /\ UNCHANGED <<sideVars, env, kbLeft, live, kbIdx, docs, genVars>>

extract_step_50(d) ==
    /\ Turn(d)
    /\ pc[d] = "extract_step_50"
    /\ task' = [task EXCEPT ![d].progress = 50]
    /\ pc' = [pc EXCEPT ![d] = "extract_step_gen"]
    /\ UNCHANGED <<sideVars, env, kbLeft, live, kbIdx, dbVars, created_questions, genVars>>

\* finalize_task(task_id, rfp_document_id, question_ids, answers_data)
finalize_task(d, question_ids, data) ==
    WriteCompleted(d, Cardinality(question_ids), data)

\* generate_answers and question_ids: the chord is started; otherwise the
\* task is finalized with no answers.
extract_step_gen(d) ==
    /\ Turn(d)
    /\ pc[d] = "extract_step_gen"
    /\ IF env.generate_answers /\ N(d) > 0
         THEN /\ task' = [task EXCEPT ![d].current_step =
                              Step("Generating answers", 0, N(d))]
              /\ att' = [att EXCEPT ![d] =
                           [i \in 1..MaxQ |->
                              IF i <= N(d) THEN [NoAttempt EXCEPT !.st = "queued"]
                                           ELSE NoAttempt]]
              /\ pc' = [pc EXCEPT ![d] = "chord"]
         ELSE /\ \E outcome \in FinalizeOutcomes :
                    IF outcome = "raise"
                      THEN FailTask(d, FinalizeError)
                      ELSE finalize_task(d, {QuestionOf(d, i) : i \in 1..N(d)}, <<>>)
              /\ UNCHANGED att
    /\ UNCHANGED <<sideVars, env, kbLeft, live, kbIdx, dbVars, created_questions,
                   completed_count, progress_lock, answers_data>>

\* ------------------------------------------ generate_answer_for_question
ga_start(d, i) ==
    /\ Turn(d)
    /\ USE_CELERY(d)
    /\ att[d][i].st \in {"queued", "retry"}
    /\ att' = [att EXCEPT ![d][i].st = "running"]
    /\ UNCHANGED <<sideVars, env, kbLeft, live, pc, task, kbIdx, dbVars, created_questions,
                   completed_count, progress_lock, answers_data>>

ExecutionSucceeds(d, i) ==
    \/ Plan(i) \in {"ok", "progfail"}
    \/ Plan(i) = "flaky" /\ att[d][i].retries >= 1

\* except Exception: raise self.retry(exc=exc, countdown=30, max_retries=3).
\* Once the retries are used up retry() re-raises exc and the task fails.
ga_retry(d, i) ==
    att' = [att EXCEPT ![d][i] =
              IF @.retries < MAX_RETRIES
                THEN [@ EXCEPT !.st = "retry", !.retries = @ + 1]
                ELSE [@ EXCEPT !.st = "failed"]]

ga_generate(d, i) ==
    /\ Turn(d)
    /\ USE_CELERY(d)
    /\ att[d][i].st = "running"
    /\ IF ExecutionSucceeds(d, i)
         THEN /\ answers' = [answers EXCEPT ![d] = @ \cup {QuestionOf(d, i)}]
              /\ att' = [att EXCEPT ![d][i].st = "saved"]
         ELSE /\ ga_retry(d, i)
              /\ UNCHANGED answers
    /\ UNCHANGED <<sideVars, env, kbLeft, live, pc, task, kbIdx, docs, questions, nextId,
                   created_questions, completed_count, progress_lock,
                   answers_data>>

\* completed_count = Answer.objects.filter(question__rfp_document=...).count()
\* An exception in the progress update is caught and only logged.
ga_count(d, i) ==
    /\ Turn(d)
    /\ USE_CELERY(d)
    /\ att[d][i].st = "saved"
    /\ att' = [att EXCEPT ![d][i] =
                 IF Plan(i) = "progfail"
                   THEN [@ EXCEPT !.st = "ok"]
                   ELSE [@ EXCEPT !.st = "counted",
                                  !.cnt = Cardinality(answers[d])]]
    /\ UNCHANGED <<sideVars, env, kbLeft, live, pc, task, kbIdx, dbVars, created_questions,
                   completed_count, progress_lock, answers_data>>

CeleryProgress(d, i) == 50 + IntScale(att[d][i].cnt, N(d), 45)

\* task_obj = ProcessingTask.objects.get(...); progress; current_step; save()
ga_write(d, i) ==
    /\ Turn(d)
    /\ USE_CELERY(d)
    /\ att[d][i].st = "counted"
    /\ task' = [task EXCEPT ![d].progress = CeleryProgress(d, i),
                    ![d].current_step = Step("Generated", att[d][i].cnt, N(d))]
    /\ att' = [att EXCEPT ![d][i].st = "ok"]
    /\ UNCHANGED <<sideVars, env, kbLeft, live, pc, kbIdx, dbVars, created_questions,
                   completed_count, progress_lock, answers_data>>

\* --------------------------------------------- collect_answers_results
\* The callback fired by the first header task that succeeds.
ChordAnyDone(d) == \E i \in 1..N(d) : att[d][i].st = "ok"

\* The chord's callback runs once every task of the header has succeeded;
\* a header task that failed leaves the callback unrun.
ChordHeaderDone(d) == \A i \in 1..N(d) : att[d][i].st = "ok"

RECURSIVE CollectFrom(_, _)
CollectFrom(d, i) ==
    IF i > N(d) THEN <<>>
    ELSE (IF att[d][i].st = "ok" /\ QuestionOf(d, i) \in answers[d]
            THEN <<AnswerData(d, i)>> ELSE <<>>) \o CollectFrom(d, i + 1)

\* The callback has no except clause: an exception ends it and the row is
\* left as the last progress update wrote it.
CallbackRaises(d) ==
    /\ pc' = [pc EXCEPT ![d] = "done"]
    /\ UNCHANGED <<task, answers_data>>

collect_answers_results(d) ==
    /\ Turn(d)
    /\ pc[d] = "chord"
    /\ ChordHeaderDone(d)
    /\ \E outcome \in FinalizeOutcomes :
          IF outcome = "raise"
            THEN CallbackRaises(d)
            ELSE /\ answers_data' = [answers_data EXCEPT ![d] = CollectFrom(d, 1)]
                 /\ finalize_task(d, {q.id : q \in questions[d]}, CollectFrom(d, 1))
    /\ UNCHANGED <<sideVars, env, kbLeft, live, kbIdx, dbVars, created_questions, att,
                   completed_count, progress_lock>>

Next ==
    \E d \in Deployments :
        \/ process_rfp_create(d)
        \/ process_rfp_dispatch(d)
        \/ bg_start(d)
        \/ bg_kb_begin(d)
        \/ bg_kb_doc(d)
        \/ bg_extract_begin(d)
        \/ bg_extract(d)
        \/ bg_progress50(d)
        \/ bg_gen(d)
        \/ bg_finalize(d)
        \/ \E i \in 1..MaxQ :
             \/ ps_start(d, i)
             \/ ps_generate(d, i)
             \/ ps_lock(d, i)
             \/ ps_write(d, i)
             \/ ga_start(d, i)
             \/ ga_generate(d, i)
             \/ ga_count(d, i)
             \/ ga_write(d, i)
        \/ kb_step_begin(d)
        \/ kb_step_doc(d)
        \/ extract_step_begin(d)
        \/ extract_step_run(d)
        \/ extract_step_50(d)
        \/ extract_step_gen(d)
        \/ collect_answers_results(d)

Spec == Init /\ [][Next]_vars

\* Both deployments receive the same request and meet the same outcomes.
InitPair == InitWith(Deployments)

SpecPair == InitPair /\ [][Next]_vars

\* Every external call returns or raises and the workers are scheduled: a
\* pipeline with a step to take takes one.
FairSpec == Init /\ [][Next]_vars /\ WF_vars(Next)

\* No request: the state of the pipeline while one of its parts is examined.
PipelineIdle ==
    /\ env = [rfp |-> "missing", plan |-> <<>>, generate_answers |-> FALSE]
    /\ kbLeft = [d \in Deployments |-> <<>>]
    /\ docs = [d \in Deployments |-> <<>>]
    /\ live = {}
    /\ pc = [d \in Deployments |-> "request"]
    /\ task = [d \in Deployments |-> NoTask]
    /\ kbIdx = [d \in Deployments |-> 0]
    /\ questions = [d \in Deployments |-> {}]
    /\ answers = [d \in Deployments |-> {}]
    /\ nextId = [d \in Deployments |-> 2]
    /\ created_questions = [d \in Deployments |-> <<>>]
    /\ att = [d \in Deployments |-> [i \in 1..MaxQ |-> NoAttempt]]
    /\ completed_count = [d \in Deployments |-> 0]
    /\ progress_lock = [d \in Deployments |-> 0]
    /\ answers_data = [d \in Deployments |-> <<>>]

\* =========================================================== fan-out width
\* The Generate stage of one task with n questions, seen only as attempts
\* that wait, run and end.
MaxFan == 6
MaxConcurrency == 6

\* The thread-backed pool has BATCH_SIZE workers.  The queue-backed chord
\* publishes every header task at once; they run on whatever worker
\* processes the Celery deployment has (its concurrency setting).
FanPools ==
    {[active |-> TRUE, path |-> d, concurrency |-> c,
      st |-> [i \in 1..n |-> "queued"]] :
        d \in Deployments, c \in 1..MaxConcurrency, n \in 1..MaxFan}

\* Only the queue-backed path depends on the deployment's concurrency.
FanInit ==
    /\ PipelineIdle
    /\ pool \in {p \in FanPools : ~USE_CELERY(p.path) => p.concurrency = 1}
    /\ ing = Idle /\ ext = Idle /\ ans = Idle /\ call = Idle
    /\ sweep = Idle

InProgress == {i \in DOMAIN pool.st : pool.st[i] = "running"}

\* ThreadPoolExecutor(max_workers=BATCH_SIZE): a queued future starts when
\* one of the BATCH_SIZE worker threads is idle.
executor_run(i) ==
    /\ ~USE_CELERY(pool.path)
    /\ i \in DOMAIN pool.st
    /\ pool.st[i] = "queued"
    /\ Cardinality(InProgress) < BATCH_SIZE
    /\ pool' = [pool EXCEPT !.st[i] = "running"]
    /\ UNCHANGED <<pipeVars, ing, ext, ans, call, sweep>>

\* chord(header)(callback): a published header task starts when a worker
\* process is idle.
worker_run(i) ==
    /\ USE_CELERY(pool.path)
    /\ i \in DOMAIN pool.st
    /\ pool.st[i] = "queued"
    /\ Cardinality(InProgress) < pool.concurrency
    /\ pool' = [pool EXCEPT !.st[i] = "running"]
    /\ UNCHANGED <<pipeVars, ing, ext, ans, call, sweep>>

\* The attempt returns or raises.
attempt_end(i) ==
    /\ i \in DOMAIN pool.st
    /\ pool.st[i] = "running"
    /\ pool' = [pool EXCEPT !.st[i] = "done"]
    /\ UNCHANGED <<pipeVars, ing, ext, ans, call, sweep>>

FanNext ==
    \E i \in 1..MaxFan :
        \/ executor_run(i)
        \/ worker_run(i)
        \/ attempt_end(i)

SpecFanOut == FanInit /\ [][FanNext]_vars

\* =============================================================== ingestion
\* One knowledge-base Document row and the pieces of code that ingest it:
\* the loop body of _process_rfp_background ("thread"), the loop body of
\* process_kb_documents_step ("celery"), process_knowledge_base_document
\* ("task").
MaxIngesters == 2
DOC_MAX_RETRIES == 3

IngestKinds == {"thread", "celery", "task"}

Ingesters == 1..MaxIngesters

\* process_document_for_rag returns True, or False when the text extraction
\* yields nothing or the vector index rejects the chunks.
RagOutcomes == {"ok", "reject"}

DocRows ==
    {r \in [exists : BOOLEAN, processed : BOOLEAN, processed_at : {-1, 0}] :
        /\ (r.processed => r.exists)
        /\ (r.processed <=> r.processed_at = 0)}

NewIngester(k, o) ==
    [kind |-> k, rag |-> o, pc |-> "start", seen |-> "none", retries |-> 0]

IngestInit ==
    /\ PipelineIdle
    /\ \E r \in DocRows, ks \in [Ingesters -> IngestKinds],
          os \in [Ingesters -> RagOutcomes] :
          ing = [active |-> TRUE, row |-> r, calls |-> 0, clock |-> 0,
                 h |-> [i \in Ingesters |-> NewIngester(ks[i], os[i])]]
    /\ pool = Idle /\ ext = Idle /\ ans = Idle /\ call = Idle
    /\ sweep = Idle

\* except Exception: raise self.retry(exc=exc, countdown=60), with the
\* task's max_retries=3.  Once the retries are used up retry() raises exc
\* out of the handler: the except MaxRetriesExceededError clause belongs to
\* the same try statement and does not see what a sibling clause raises.
DocRetry(i) ==
    IF ing.h[i].retries < DOC_MAX_RETRIES
      THEN [ing.h[i] EXCEPT !.pc = "retry", !.retries = @ + 1]
      ELSE [ing.h[i] EXCEPT !.pc = "raised"]

\* A handler that loaded the row with the flag set processes it anyway.
NeedsProcessingAlways(row) == TRUE

\* if not doc.processed / if kb_doc and not kb_doc.processed
NeedsProcessing(row) == ~row.processed

\* Document.objects.filter(...).first() or Document.objects.get(...)
ingest_load(i) ==
    /\ ing.active
    /\ ing.h[i].pc \in {"start", "retry"}
    /\ ing' = [ing EXCEPT !.h[i] =
                 IF ~ing.row.exists
                   THEN IF @.kind = "task" THEN DocRetry(i)
                        ELSE [@ EXCEPT !.pc = "done", !.seen = "missing"]
                   ELSE [@ EXCEPT
                           !.seen = IF ing.row.processed THEN "processed"
                                                         ELSE "unprocessed",
                           !.pc = IF NeedsProcessing(ing.row) THEN "call"
                                                              ELSE "done"]]
    /\ UNCHANGED <<pipeVars, pool, ext, ans, call, sweep>>

\* success = rag_engine.process_document_for_rag(doc.file.path, doc.id)
ingest_call(i) ==
    /\ ing.active
    /\ ing.h[i].pc = "call"
    /\ ing' = [ing EXCEPT !.calls = @ + 1,
                          !.h[i] = IF @.rag = "ok" THEN [@ EXCEPT !.pc = "save"]
                                   ELSE IF @.kind = "task" THEN DocRetry(i)
                                   ELSE [@ EXCEPT !.pc = "done"]]
    /\ UNCHANGED <<pipeVars, pool, ext, ans, call, sweep>>

\* doc.processed = True; doc.processed_at = timezone.now(); doc.save()
ingest_save(i) ==
    /\ ing.active
    /\ ing.h[i].pc = "save"
    /\ ing' = [ing EXCEPT !.row.processed = TRUE,
                          !.row.processed_at = ing.clock + 1,
                          !.clock = @ + 1,
                          !.h[i].pc = "done"]
    /\ UNCHANGED <<pipeVars, pool, ext, ans, call, sweep>>

IngestNext ==
    \E i \in Ingesters :
        \/ ingest_load(i)
        \/ ingest_call(i)
        \/ ingest_save(i)

SpecIngest == IngestInit /\ [][IngestNext]_vars

\* ============================================================== extraction
\* The Question and Answer rows of one RFP document and the Extract stages
\* that run on it: the stage of either pipeline or QuestionViewSet.extract.
\* Each statement is its own database transaction (autocommit).
MaxRuns == 2
MaxExt == 2

Runs == 1..MaxRuns

\* Rows left by an earlier extraction, the first of them answered.
PriorTables ==
    {[rows |-> {}, answers |-> {}],
     [rows |-> {[id |-> 1, question_number |-> 1, run |-> 0]}, answers |-> {}],
     [rows |-> {[id |-> 1, question_number |-> 1, run |-> 0]}, answers |-> {1}]}

\* n: len(extracted_questions) of the run (0: no text or no question found).
NewRun(n) == [n |-> n, pc |-> "start", made |-> 0]

ExtractInit ==
    /\ PipelineIdle
    /\ \E t \in PriorTables, ns \in [Runs -> 0..MaxExt] :
          ext = [active |-> TRUE, rows |-> t.rows, answers |-> t.answers,
                 prior |-> t, nextId |-> 2,
                 run |-> [r \in Runs |-> NewRun(ns[r])]]
    /\ pool = Idle /\ ing = Idle /\ ans = Idle /\ call = Idle
    /\ sweep = Idle

\* if not text / if not extracted_questions: the stage ends before the
\* table is touched.
ext_begin(r) ==
    /\ ext.active
    /\ ext.run[r].pc = "start"
    /\ ext' = [ext EXCEPT !.run[r].pc = IF ext.run[r].n = 0 THEN "failed"
                                                             ELSE "delete"]
    /\ UNCHANGED <<pipeVars, pool, ing, ans, call, sweep>>

\* Question.objects.filter(rfp_document=rfp_doc).delete()
ext_delete(r) ==
    /\ ext.active
    /\ ext.run[r].pc = "delete"
    /\ ext' = [ext EXCEPT !.rows = {}, !.answers = {}, !.run[r].pc = "create"]
    /\ UNCHANGED <<pipeVars, pool, ing, ans, call, sweep>>

\* A statement that stores a question inserts the row or raises (the
\* database refuses it, the connection is lost).
StoreOutcomes == {"ok", "raise"}

\* Question.objects.create(rfp_document=rfp_doc, ..., question_number=i);
\* an exception goes to the pipeline's handler, which fails the task.
ext_create(r) ==
    /\ ext.active
    /\ ext.run[r].pc = "create"
    /\ \E outcome \in StoreOutcomes :
          LET i == ext.run[r].made + 1 IN
          IF outcome = "raise"
            THEN ext' = [ext EXCEPT !.run[r].pc = "failed"]
            ELSE ext' = [ext EXCEPT
                           !.rows = @ \cup {[id |-> ext.nextId,
                                             question_number |-> i, run |-> r]},
                           !.nextId = @ + 1,
                           !.run[r].made = i,
                           !.run[r].pc = IF i = ext.run[r].n THEN "done"
                                                              ELSE "create"]
    /\ UNCHANGED <<pipeVars, pool, ing, ans, call, sweep>>

ExtractNext ==
    \E r \in Runs :
        \/ ext_begin(r)
        \/ ext_delete(r)
        \/ ext_create(r)

SpecExtract == ExtractInit /\ [][ExtractNext]_vars

\* ================================================================= answers
\* The Answer rows of one Question and the requests that write them: a
\* generation (process_single_question, generate_answer_for_question or
\* AnswerViewSet.generate, all through update_or_create) and a manual edit
\* (AnswerViewSet.edit).
MaxWriters == 3

Writers == 1..MaxWriters

WriterKinds == {"generate", "edit"}

\* result['answer'], result['confidence'], result['sources'] of writer w's
\* generate_answer call, and the text of writer w's edit.
Generated(w) == [by |-> "generated", of |-> w]

Manual(w) == [by |-> "manual", of |-> w]

\* The row an earlier generation (0) left.
EarlierAnswer ==
    [id |-> 1, answer_text |-> Generated(0), confidence_score |-> 0,
     source_documents |-> 0, edited |-> FALSE, edited_at |-> -1]

AnswersInit ==
    /\ PipelineIdle
    /\ \E rows \in {{}, {EarlierAnswer}}, ks \in [Writers -> WriterKinds] :
          ans = [active |-> TRUE, rows |-> rows, nextId |-> 2, clock |-> 0,
                 w |-> [i \in Writers |->
                          [kind |-> ks[i], pc |-> "start", obj |-> Idle]]]
    /\ pool = Idle /\ ing = Idle /\ ext = Idle /\ call = Idle
    /\ sweep = Idle

\* setattr(obj, k, v) for the defaults: answer_text, confidence_score,
\* source_documents (and generated_at); edited and edited_at are not among
\* them.
WithDefaults(row, w) ==
    [row EXCEPT !.answer_text = Generated(w), !.confidence_score = w,
                !.source_documents = w]

\* The table without its unique index on question_id.
UniqueUnchecked(rows) == FALSE

\* question = OneToOneField(Question): a second row for the question is
\* refused with an IntegrityError.
UniqueViolation(rows) == rows # {}

\* update_or_create, first half: select_for_update().get(question=question)
\* finds the row and, holding it, sets the defaults and saves; or finds
\* none.
gen_get(i) ==
    /\ ans.active
    /\ ans.w[i].kind = "generate"
    /\ ans.w[i].pc = "start"
    /\ ans' = IF ans.rows = {}
                THEN [ans EXCEPT !.w[i].pc = "create"]
                ELSE [ans EXCEPT !.rows = {WithDefaults(r, i) : r \in ans.rows},
                                 !.w[i].pc = "done"]
    /\ UNCHANGED <<pipeVars, pool, ing, ext, call, sweep>>

\* update_or_create, second half: create(); on IntegrityError the row is
\* read again, the defaults are set and it is saved.
gen_create(i) ==
    /\ ans.active
    /\ ans.w[i].pc = "create"
    /\ ans' = IF UniqueViolation(ans.rows)
                THEN [ans EXCEPT !.rows = {WithDefaults(r, i) : r \in ans.rows},
                                 !.w[i].pc = "done"]
                ELSE [ans EXCEPT
                        !.rows = @ \cup {WithDefaults([EarlierAnswer EXCEPT
                                                         !.id = ans.nextId], i)},
                        !.nextId = @ + 1,
                        !.w[i].pc = "done"]
    /\ UNCHANGED <<pipeVars, pool, ing, ext, call, sweep>>

\* answer = self.get_object(): 404 when the question has no answer.
edit_load(i) ==
    /\ ans.active
    /\ ans.w[i].kind = "edit"
    /\ ans.w[i].pc = "start"
    /\ ans' = IF ans.rows = {}
                THEN [ans EXCEPT !.w[i].pc = "done"]
                ELSE [ans EXCEPT !.w[i].pc = "save",
                                 !.w[i].obj = CHOOSE r \in ans.rows : TRUE]
    /\ UNCHANGED <<pipeVars, pool, ing, ext, call, sweep>>

\* answer.answer_text = new_text; answer.edited = True; answer.edited_at =
\* timezone.now(); answer.save(): every field of the loaded object is
\* written to the row with its id.
edit_save(i) ==
    /\ ans.active
    /\ ans.w[i].pc = "save"
    /\ LET obj == [ans.w[i].obj EXCEPT !.answer_text = Manual(i),
                                        !.edited = TRUE,
                                        !.edited_at = ans.clock + 1]
       IN ans' = [ans EXCEPT
                    !.rows = {IF r.id = obj.id THEN obj ELSE r : r \in ans.rows},
                    !.clock = @ + 1,
                    !.w[i].pc = "done"]
    /\ UNCHANGED <<pipeVars, pool, ing, ext, call, sweep>>

AnswersNext ==
    \E i \in Writers :
        \/ gen_get(i)
        \/ gen_create(i)
        \/ edit_load(i)
        \/ edit_save(i)

SpecAnswers == AnswersInit /\ [][AnswersNext]_vars

\* ========================================================= generate_answer
\* RAGEngine.generate_answer as a function of what its collaborators do:
\* whether the OpenAI client is configured, the matches the vector search
\* returns and whether the language-model call raises.
\* Distances are in hundredths (-1: None), relevance in 1/200, confidence
\* in hundredths.
MaxHits == 4

\* Cosine distances 0..2, one beyond that range, and None.
DistanceGrid == {-1, 0, 10, 20, 40, 80, 120, 160, 200, 240}

Min(a, b) == IF a < b THEN a ELSE b

Max(a, b) == IF a > b THEN a ELSE b

\* distance = result['distance'] if result['distance'] else 1.0
DistanceOrDefault(d) == IF d = -1 \/ d = 0 THEN 100 ELSE d

\* similarity = max(0.0, min(1.0, 1.0 - (distance / 2.0))), in 1/200
Similarity(d) == Max(0, Min(200, 200 - DistanceOrDefault(d)))

RECURSIVE SumRelevance(_)
SumRelevance(found) ==
    IF found = <<>> THEN 0
    ELSE Similarity(Head(found)) + SumRelevance(Tail(found))

\* The top band given the slope of the middle bands.
ScaledConfidenceSteepTop(s, n) ==
    IF s >= 160 * n THEN 400 * n + 6 * s
    ELSE IF s >= 80 * n THEN 400 * n + 6 * s
    ELSE 640 * n + 3 * s

\* The band from 0.6 started at 0.65 instead of 0.70.
ScaledConfidenceLowBand(s, n) ==
    IF s >= 160 * n THEN 720 * n + 4 * s
    ELSE IF s >= 120 * n THEN 320 * n + 6 * s
    ELSE IF s >= 80 * n THEN 400 * n + 6 * s
    ELSE 640 * n + 3 * s

\* The branch of the scale for avg_relevance = s / (200 n), as the
\* numerator of a fraction over 1600 n:
\*   0.85 + (avg - 0.8) * 0.5     0.70 + (avg - 0.6) * 0.75
\*   0.55 + (avg - 0.4) * 0.75    0.40 + avg * 0.375
ScaledConfidence(s, n) ==
    IF s >= 160 * n THEN 720 * n + 4 * s
    ELSE IF s >= 120 * n THEN 400 * n + 6 * s
    ELSE IF s >= 80 * n THEN 400 * n + 6 * s
    ELSE 640 * n + 3 * s

\* confidence = max(0.4, min(0.95, confidence))
ClampConfidence(c, n) == Max(640 * n, Min(1520 * n, c))

\* round(x, 2) of the float computed for x = num / den, in hundredths: the
\* nearer hundredth; when x is halfway between two, the float's
\* representation error decides and either may come out.
Round2(num, den) ==
    LET q == (100 * num) \div den
        r == (100 * num) % den
    IN IF 2 * r > den THEN {q + 1}
       ELSE IF 2 * r = den THEN {q, q + 1}
       ELSE {q}

\* The confidence for avg_relevance = s / (200 n), in hundredths.
Score(s, n) == Round2(ClampConfidence(ScaledConfidence(s, n), n), 1600 * n)

Confidence(found) == Score(SumRelevance(found), Len(found))

ErrorAnswer(text) == [answer |-> text, confidence |-> 0, sources |-> <<>>]

\* The source entry of the match of rank k: its document_id and chunk_index
\* (the match itself) and its relevance_score.
Source(found, k) == [match |-> k, relevance_score |-> Similarity(found[k])]

\* The last three matches in place of the first three (sources[-3:]).
LastSources(found) ==
    [k \in 1..Min(3, Len(found)) |-> Source(found, Len(found) - Min(3, Len(found)) + k)]

\* sources[:3]
TopSources(found) == [k \in 1..Min(3, Len(found)) |-> Source(found, k)]

\* The results generate_answer can return.
generate_answer(client, found, llm) ==
    IF ~client THEN {ErrorAnswer("Error: OpenAI API key not configured")}
    ELSE IF found = <<>>
      THEN {ErrorAnswer("No relevant information found in the knowledge base.")}
    ELSE IF llm = "raise" THEN {ErrorAnswer("Error generating answer")}
    ELSE {[answer |-> "generated", confidence |-> c,
           sources |-> TopSources(found)] : c \in Confidence(found)}

\* Without a client neither the search nor the model is called: their
\* outcomes are left at the empty ones.
ScoreInit ==
    /\ PipelineIdle
    /\ \E c \in BOOLEAN, f \in SeqsUpTo(DistanceGrid, MaxHits),
          l \in {"ok", "raise"} :
          /\ ~c => (f = <<>> /\ l = "ok")
          /\ call = [active |-> TRUE, client |-> c, found |-> f, llm |-> l,
                     returned |-> FALSE, result |-> ErrorAnswer("")]
    /\ pool = Idle /\ ing = Idle /\ ext = Idle /\ ans = Idle
    /\ sweep = Idle

rag_generate_answer ==
    /\ call.active
    /\ ~call.returned
    /\ \E result \in generate_answer(call.client, call.found, call.llm) :
          call' = [call EXCEPT !.returned = TRUE, !.result = result]
    /\ UNCHANGED <<pipeVars, pool, ing, ext, ans, sweep>>

ScoreNext == rag_generate_answer

SpecScore == ScoreInit /\ [][ScoreNext]_vars

\* ============================================== extract_questions_from_rfp
\* One call of extract_questions_from_rfp on the text of an RFP, and the
\* test the pipeline makes of its result.  A text is a sequence of lines; a
\* line is its numbering ("1. ") if any, the text t after it, that text's
\* length and whether it ends with a question mark.
MaxLines == 52

MaxText == 2

MaxContent == 1

MAX_QUESTIONS == 50

MIN_LENGTH == 10

Line(num, t, len, q) == [num |-> num, t |-> t, len |-> len, q |-> q]

\* A question, a short question and a statement, each with and without
\* numbering.
Lines ==
    {Line(num, b[1], b[2], b[3]) :
        num \in BOOLEAN, b \in {<<1, 20, TRUE>>, <<2, 8, TRUE>>, <<3, 20, FALSE>>}}

\* Long texts: len question lines that repeat after period distinct ones.
Periods == {1, 7, MAX_QUESTIONS, MAX_QUESTIONS + 1}

LongText(len, period) ==
    [i \in 1..len |-> Line(FALSE, 4 + ((i - 1) % period), 20, TRUE)]

Texts ==
    SeqsUpTo(Lines, MaxText)
        \cup {LongText(len, period) : len \in 1..MaxLines, period \in Periods}

\* The model's reply: the call raises, or returns lines.
Replies ==
    {[raises |-> TRUE, content |-> <<>>]}
        \cup {[raises |-> FALSE, content |-> c] : c \in SeqsUpTo(Lines, MaxContent)}

\* len() of a line and of a candidate, a sequence of lines joined by "\n"
LineLen(l) == l.len + (IF l.num THEN 3 ELSE 0)

RECURSIVE TextLen(_)
TextLen(c) ==
    IF c = <<>> THEN 0
    ELSE LineLen(Head(c)) + (IF Len(c) > 1 THEN 1 ELSE 0) + TextLen(Tail(c))

\* [line.strip() for line in text.split('\n') if line.strip().endswith('?')]
RECURSIVE QuestionLines(_)
QuestionLines(text) ==
    IF text = <<>> THEN <<>>
    ELSE (IF Head(text).q THEN << <<Head(text)>> >> ELSE <<>>)
             \o QuestionLines(Tail(text))

\* numbered_pattern: an item starts at a numbered line and runs, across
\* lines, up to the next numbered line or the end of the text; item[1] is
\* the item without its numbering.
ItemEnd(text, i) ==
    LET later == {j \in (i + 1)..Len(text) : text[j].num}
    IN IF later = {} THEN Len(text) + 1
       ELSE CHOOSE j \in later : \A k \in later : j <= k

Item(text, i) ==
    <<[text[i] EXCEPT !.num = FALSE]>> \o SubSeq(text, i + 1, ItemEnd(text, i) - 1)

RECURSIVE NumberedItems(_, _)
NumberedItems(text, i) ==
    IF i > Len(text) THEN <<>>
    ELSE (IF text[i].num THEN <<Item(text, i)>> ELSE <<>>)
             \o NumberedItems(text, i + 1)

\* The filter without the test on seen.
RECURSIVE KeepRepeats(_, _)
KeepRepeats(candidates, seen) ==
    IF candidates = <<>> THEN <<>>
    ELSE LET q == Head(candidates) IN
         IF TextLen(q) > MIN_LENGTH
           THEN <<q>> \o KeepRepeats(Tail(candidates), seen)
           ELSE KeepRepeats(Tail(candidates), seen)

\* if q and len(q) > 10 and q not in seen: seen.add(q); questions.append(...)
RECURSIVE Deduplicate(_, _)
Deduplicate(candidates, seen) ==
    IF candidates = <<>> THEN <<>>
    ELSE LET q == Head(candidates) IN
         IF TextLen(q) > MIN_LENGTH /\ q \notin seen
           THEN <<q>> \o Deduplicate(Tail(candidates), seen \cup {q})
           ELSE Deduplicate(Tail(candidates), seen)

\* {'id': f'q_{len(questions) + 1}', 'question': q}
Numbered(found) == [k \in 1..Len(found) |-> [id |-> k, question |-> found[k]]]

fallback_question_extraction(text) ==
    LET all_potential_questions == QuestionLines(text) \o NumberedItems(text, 1)
        found == Numbered(Deduplicate(all_potential_questions, {}))
    IN SubSeq(found, 1, Min(MAX_QUESTIONS, Len(found)))

\* The reply parsed line by line: the numbering is removed and lines of at
\* most 10 characters are dropped.
RECURSIVE ParseReply(_)
ParseReply(content) ==
    IF content = <<>> THEN <<>>
    ELSE LET line == [Head(content) EXCEPT !.num = FALSE] IN
         (IF LineLen(line) > MIN_LENGTH THEN << <<line>> >> ELSE <<>>)
             \o ParseReply(Tail(content))

extract_questions_from_rfp(client, text, reply) ==
    IF ~client THEN fallback_question_extraction(text)
    ELSE IF reply.raises THEN fallback_question_extraction(text)
    ELSE IF ParseReply(reply.content) = <<>>
      THEN fallback_question_extraction(text)
    ELSE Numbered(ParseReply(reply.content))

\* Without a client the model is not called: its reply is left at the empty one.
QuestionsInit ==
    /\ PipelineIdle
    /\ \E c \in BOOLEAN, t \in Texts, r \in Replies :
          /\ ~c => r = [raises |-> FALSE, content |-> <<>>]
          /\ call = [active |-> TRUE, client |-> c, text |-> t, reply |-> r,
                     returned |-> FALSE, questions |-> <<>>, failed |-> FALSE]
    /\ pool = Idle /\ ing = Idle /\ ext = Idle /\ ans = Idle
    /\ sweep = Idle

\* extracted_questions = rag_engine.extract_questions_from_rfp(text)
\* if not extracted_questions: raise Exception('No questions found ...')
extract_questions ==
    /\ call.active
    /\ ~call.returned
    /\ LET extracted_questions ==
              extract_questions_from_rfp(call.client, call.text, call.reply)
       IN call' = [call EXCEPT !.returned = TRUE,
                               !.questions = extracted_questions,
                               !.failed = (extracted_questions = <<>>)]
    /\ UNCHANGED <<pipeVars, pool, ing, ext, ans, sweep>>

QuestionsNext == extract_questions

SpecQuestions == QuestionsInit /\ [][QuestionsNext]_vars

\* ====================================================== clean_expired_tasks
\* The ProcessingTask rows, the runs that write their status, and the daily
\* clean_expired_tasks.  Time is counted in days.
MaxTasks == 2

MaxDays == 8

EXPIRY_DAYS == 7

TaskIds == 1..MaxTasks

NoRow == [exists |-> FALSE, status |-> "none", created_at |-> 0]

CleanupInit ==
    /\ PipelineIdle
    /\ sweep = [active |-> TRUE, now |-> 0, row |-> [t \in TaskIds |-> NoRow]]
    /\ pool = Idle /\ ing = Idle /\ ext = Idle /\ ans = Idle /\ call = Idle

\* ProcessingTask.objects.create(..., status='pending'); created_at is
\* auto_now_add.
task_create(t) ==
    /\ sweep.active
    /\ sweep.row[t].status = "none"
    /\ sweep' = [sweep EXCEPT !.row[t] = [exists |-> TRUE, status |-> "pending",
                                          created_at |-> sweep.now]]
    /\ UNCHANGED <<pipeVars, pool, ing, ext, ans, call>>

\* The run of a task writes its next status; a run can also stay where it
\* is for any length of time.
task_advance(t) ==
    /\ sweep.active
    /\ sweep.row[t].exists
    /\ \E next \in {"processing"} \cup Terminal :
          /\ <<sweep.row[t].status, next>>
                \in {<<"pending", "processing">>, <<"processing", "completed">>,
                     <<"processing", "failed">>}
          /\ sweep' = [sweep EXCEPT !.row[t].status = next]
    /\ UNCHANGED <<pipeVars, pool, ing, ext, ans, call>>

day_passes ==
    /\ sweep.active
    /\ sweep.now < MaxDays
    /\ sweep' = [sweep EXCEPT !.now = @ + 1]
    /\ UNCHANGED <<pipeVars, pool, ing, ext, ans, call>>

\* filter(created_at__lt=cutoff_date), cutoff_date = now - timedelta(days=7)
Expired(row) == row.created_at + EXPIRY_DAYS < sweep.now

\* ProcessingTask.objects.filter(created_at__lt=cutoff_date).delete()
clean_expired_tasks ==
    /\ sweep.active
    /\ sweep' = [sweep EXCEPT !.row =
                   [t \in TaskIds |->
                      IF sweep.row[t].exists /\ Expired(sweep.row[t])
                        THEN [sweep.row[t] EXCEPT !.exists = FALSE]
                        ELSE sweep.row[t]]]
    /\ UNCHANGED <<pipeVars, pool, ing, ext, ans, call>>

CleanupNext ==
    \/ \E t \in TaskIds : task_create(t) \/ task_advance(t)
    \/ day_passes
    \/ clean_expired_tasks

SpecCleanup == CleanupInit /\ [][CleanupNext]_vars

\* =============================================================== chunk_text
\* One call of DocumentExtractor.chunk_text, an iteration of its loop at a
\* time.  A text is a sequence of characters, indexed from 0 as in Python;
\* a chunk is kept as the positions [lo, hi) of the text it holds after
\* strip().
MaxTextLen == 8

MaxChunkSize == 7

MaxBreaks == 2

MaxChunks == 9

Whitespace == {"\n", " "}

\* A text of len characters with paragraph breaks ("\n\n") and sentence
\* breaks (". ") starting at the given positions, and letters elsewhere.
TextWith(len, para, sent) ==
    [i \in 1..len |->
        IF (i - 1) \in para \/ (i - 2) \in para THEN "\n"
        ELSE IF (i - 1) \in sent THEN "."
        ELSE IF (i - 2) \in sent THEN " "
        ELSE "a"]

ChunkTexts ==
    {TextWith(len, para, sent) :
        len \in 0..MaxTextLen,
        para \in {b \in SUBSET (0..(MaxTextLen - 2)) : Cardinality(b) <= MaxBreaks},
        sent \in {b \in SUBSET (0..(MaxTextLen - 2)) : Cardinality(b) <= MaxBreaks}}

\* A slice bound as Python reads it: a negative one counts from the end.
SliceIndex(len, i) == IF i < 0 THEN Max(len + i, 0) ELSE Min(i, len)

\* text.rfind(c1 + c2, start, end)
rfind(text, c1, c2, start, end) ==
    LET lo == SliceIndex(Len(text), start)
        hi == SliceIndex(Len(text), end)
        hits == {p \in lo..(hi - 2) : text[p + 1] = c1 /\ text[p + 2] = c2}
    IN IF hits = {} THEN -1 ELSE CHOOSE p \in hits : \A q \in hits : q <= p

\* The paragraph break, else the position after the full stop, else -1.
BreakPoint(text, start, end) ==
    LET para == rfind(text, "\n", "\n", start, end)
        sent == rfind(text, ".", " ", start, end)
    IN IF para # -1 THEN para ELSE IF sent # -1 THEN sent + 1 ELSE -1

ChunkEnd(text, chunk_size, start) ==
    LET end == start + chunk_size
        break_point == BreakPoint(text, start, end)
    IN IF end < Len(text) /\ break_point # -1 /\ break_point > start
         THEN break_point
         ELSE end

\* text[start:end].strip(): the positions kept, none when the chunk is empty.
Stripped(text, start, end) ==
    LET lo == SliceIndex(Len(text), start)
        hi == SliceIndex(Len(text), end)
        kept == {p \in lo..(hi - 1) : text[p + 1] \notin Whitespace}
    IN IF kept = {} THEN <<>>
       ELSE <<[lo |-> CHOOSE p \in kept : \A q \in kept : p <= q,
               hi |-> 1 + CHOOSE p \in kept : \A q \in kept : q <= p]>>

ChunkInit ==
    /\ PipelineIdle
    /\ \E t \in ChunkTexts, size \in 1..MaxChunkSize :
          \E overlap \in 0..(size - 1) :
             call = [active |-> TRUE, text |-> t, chunk_size |-> size,
                     chunk_overlap |-> overlap, start |-> 0, chunks |-> <<>>,
                     returned |-> FALSE]
    /\ pool = Idle /\ ing = Idle /\ ext = Idle /\ ans = Idle /\ sweep = Idle

\* One iteration of while start < text_length.
chunk_loop ==
    /\ call.active
    /\ ~call.returned
    /\ call.start < Len(call.text)
    /\ Len(call.chunks) < MaxChunks
    /\ LET end == ChunkEnd(call.text, call.chunk_size, call.start) IN
         call' = [call EXCEPT
                    !.chunks = @ \o Stripped(call.text, call.start, end),
                    !.start = end - call.chunk_overlap]
    /\ UNCHANGED <<pipeVars, pool, ing, ext, ans, sweep>>

\* if not text: return []; the loop is left; return chunks
chunk_return ==
    /\ call.active
    /\ ~call.returned
    /\ call.start >= Len(call.text)
    /\ call' = [call EXCEPT !.returned = TRUE]
    /\ UNCHANGED <<pipeVars, pool, ing, ext, ans, sweep>>

ChunkNext == chunk_loop \/ chunk_return

SpecChunk == ChunkInit /\ [][ChunkNext]_vars

\* ------------------------------------------------------------ properties
Succeeded(d) == {i \in 1..N(d) : att[d][i].st = "ok"}

FailedForGood(d) == {i \in 1..N(d) : att[d][i].st = "failed"}

AnswerIds(r) == {r.answers[k].question : k \in 1..Len(r.answers)}

AnswerNumbers(r) == {r.answers[k].question_number : k \in 1..Len(r.answers)}

\* C1: when some generation attempts have failed for good and the others
\* have succeeded, the task ends completed, with exactly the successful
\* questions in result.answers: once nothing more can run, the task is
\* neither still processing nor failed.
C1_PartialSuccessCompletes ==
    \A d \in live :
        (/\ FailedForGood(d) # {}
         /\ Succeeded(d) # {}
         /\ Succeeded(d) \cup FailedForGood(d) = 1..N(d)
         /\ ~ENABLED Next)
        => /\ task[d].status = "completed"
           /\ AnswerIds(task[d].result) = {QuestionOf(d, i) : i \in Succeeded(d)}

\* C2: the progress values persisted for a task never decrease until the
\* task is terminal.
C2_ProgressMonotonic ==
    [][\A d \in Deployments :
          task[d].status \notin Terminal => task'[d].progress >= task[d].progress]_vars

Updating(d) == {i \in 1..N(d) : att[d][i].st \in {"inlock", "counted"}}

\* C3: at most one generation attempt of a task is between reading the
\* completed count and writing progress and current_step back.
C3_ProgressUpdateExclusive ==
    \A d \in Deployments : Cardinality(Updating(d)) <= 1

\* C4: status=completed is written only after every generation attempt has
\* produced a result or failed for good; none is running or awaiting a retry.
C4_FinalizeAfterAllAttempts ==
    \A d \in Deployments :
        task[d].status = "completed"
        => \A i \in 1..MaxQ : att[d][i].st \notin Unfinished

C4_Witness ==
    \E d \in Deployments :
        /\ task[d].status = "completed"
        /\ N(d) >= 2
        /\ \E i \in 1..N(d) : att[d][i].retries >= 1

\* C5: when the task is completed, answers_count is the number of questions
\* whose attempt succeeded, it is at most questions_count, no question id is
\* listed twice, and if all N attempts succeeded then progress is 100 and
\* both counts are N with the question numbers 1..N each once.
C5_FanInComplete ==
    \A d \in Deployments :
        task[d].status = "completed"
        => LET r == task[d].result IN
           /\ r.present
           /\ r.answers_count = Cardinality(Succeeded(d))
           /\ r.answers_count <= r.questions_count
           /\ Cardinality(AnswerIds(r)) = Len(r.answers)
           /\ (env.generate_answers /\ Succeeded(d) = 1..N(d))
              => /\ task[d].progress = 100
                 /\ r.answers_count = N(d)
                 /\ r.questions_count = N(d)
                 /\ Len(r.answers) = N(d)
                 /\ AnswerNumbers(r) = 1..N(d)

C5_Witness ==
    \E d \in Deployments :
        /\ task[d].status = "completed"
        /\ N(d) >= 2
        /\ Succeeded(d) = 1..N(d)

\* What the fixed outcomes make of question i: the thread-backed worker runs
\* once and keeps the payload only if nothing raised; the queue-backed task
\* is retried and its result survives a failed progress update.
SucceedsIn(d, i) ==
    IF USE_CELERY(d) THEN Plan(i) # "fail" ELSE Plan(i) = "ok"

ExpectedAnswers(d) ==
    IF env.generate_answers THEN {i \in 1..Len(env.plan) : SucceedsIn(d, i)} ELSE {}

\* C6: the set of question ids in result.answers and the two counts are
\* fixed by the extracted questions and the outcome of each question's
\* attempt, whatever order the attempts complete in.
C6_ResultIndependentOfOrder ==
    \A d \in Deployments :
        task[d].status = "completed"
        => LET r == task[d].result IN
           /\ AnswerIds(r) = {QuestionOf(d, i) : i \in ExpectedAnswers(d)}
           /\ r.answers_count = Cardinality(ExpectedAnswers(d))
           /\ r.questions_count = Len(env.plan)

\* Completed with the answers collected out of question order.
C6_Witness ==
    \E d \in Deployments :
        /\ task[d].status = "completed"
        /\ Len(task[d].result.answers) >= 2
        /\ task[d].result.answers[1].question_number
             > task[d].result.answers[2].question_number

StatusSteps ==
    {<<"none", "pending">>, <<"pending", "processing">>,
     <<"processing", "completed">>, <<"processing", "failed">>}

C8_TerminalFrozen ==
    [][\A d \in Deployments :
          task[d].status \in Terminal => task'[d] = task[d]]_vars

C8_Witness ==
    \E d \in Deployments :
        /\ USE_CELERY(d)
        /\ task[d].status = "completed"
        /\ task[d].result.answers_count >= 2

\* C9: on the same request and the same outcome of every external call the
\* two pipelines end in the same status with the same questions_count and
\* answers_count.
C9_PathsEquivalent ==
    (task["thread"].status \in Terminal /\ task["celery"].status \in Terminal)
    => /\ task["thread"].status = task["celery"].status
       /\ task["thread"].result.questions_count
            = task["celery"].result.questions_count
       /\ task["thread"].result.answers_count
            = task["celery"].result.answers_count

AttemptHasFailed(d) ==
    \E i \in 1..N(d) : att[d][i].st \in {"failed", "retry"} \/ att[d][i].retries > 0

\* C10: a failed generation attempt, also one whose retries are used up,
\* never makes the task's status failed: a task with a failed attempt fails
\* only when writing the final record raises.
C10_AttemptFailureNotFatal ==
    \A d \in Deployments :
        (AttemptHasFailed(d) /\ task[d].status = "failed")
        => task[d].error = FinalizeError

C10_Witness ==
    \E d \in Deployments :
        \E i \in 1..N(d) :
            att[d][i].st = "failed" /\ att[d][i].retries = MAX_RETRIES

\* C11: whatever way the ingestion of a knowledge-base id fails, the other
\* ids are still handled and the task goes on to Extract: a task is failed
\* only after every id was handled, and only by the Extract stage's errors.
C11_IngestFailureTolerated ==
    \A d \in Deployments :
        task[d].status = "failed"
        => /\ kbIdx[d] = KbCount(d)
           /\ task[d].error = ExtractError

AttemptStarted(d) == \E i \in 1..MaxQ : att[d][i].st # "none"

ExtractStarted(d) == task[d].progress >= 40 \/ created_questions[d] # <<>>

\* C12: no step of Extract happens before the last knowledge-base id has
\* been handled, and no generation attempt starts before Extract has
\* replaced the old questions by all N new ones.
C12_StagesInOrder ==
    \A d \in Deployments :
        /\ ExtractStarted(d) => kbIdx[d] = KbCount(d)
        /\ AttemptStarted(d)
           => /\ N(d) = Len(env.plan)
              /\ {q.id : q \in questions[d]}
                   = {QuestionOf(d, i) : i \in 1..N(d)}
              /\ {q.question_number : q \in questions[d]} = 1..N(d)
              /\ Cardinality(questions[d]) = N(d)

C12_Witness ==
    \E d \in live :
        /\ KbCount(d) >= 1
        /\ N(d) >= 2
        /\ \E i \in 1..N(d) : att[d][i].st = "running"

\* C14: with no knowledge-base ids no document is handled, the task does
\* not fail at ingestion, the first progress value saved after 0 is 40 and
\* no value in 10..39 is ever saved.
C14_EmptyKbSkipsIngest ==
    [][\A d \in live :
          KbCount(d) = 0
          => /\ kbIdx'[d] = 0
             /\ task'[d].progress \notin 10..39
             /\ (task[d].progress = 0 /\ task'[d].progress # 0)
                => task'[d].progress = 40
             /\ task'[d].status = "failed" => task'[d].progress >= 40]_vars

C14_Witness ==
    \E d \in live :
        /\ USE_CELERY(d)
        /\ KbCount(d) = 0
        /\ task[d].status = "completed"
        /\ task[d].result.answers_count >= 1

\* C13: at most BATCH_SIZE (5) generation attempts of one task are in
\* progress at any moment, for any number of questions, in both paths.
C13_WidthBounded == Cardinality(InProgress) <= BATCH_SIZE

\* C15: a handler that finds the document's processed flag already true
\* makes no text-extraction or vector-index call and leaves processed and
\* processed_at as they are, in the thread-backed loop, the queue-backed
\* loop and process_knowledge_base_document; a second Ingest after a
\* successful first one changes nothing.
C15_ProcessedIsNoOp ==
    [][\A i \in Ingesters :
          (ing'.h[i] # ing.h[i] /\ ing'.h[i].seen = "processed")
          => /\ ing'.row = ing.row
             /\ ing'.calls = ing.calls]_vars

\* A first handler processed the document; process_knowledge_base_document
\* then found it processed.
C15_Witness ==
    /\ ing.row.processed_at = 1
    /\ ing.calls = 1
    /\ \E i \in Ingesters :
          /\ ing.h[i].kind = "task"
          /\ ing.h[i].pc = "done"
          /\ ing.h[i].seen = "processed"

ExtractPartWay == \E r \in Runs : ext.run[r].pc \in {"delete", "create"}

\* C16: whenever no Extract stage is part-way through, the question_number
\* values of the document's questions are pairwise distinct and are exactly
\* 1..N, also after two Extract stages on the document have interleaved.
C16_NumbersDense ==
    ~ExtractPartWay
    => /\ \A q1, q2 \in ext.rows :
             q1.question_number = q2.question_number => q1 = q2
       /\ {q.question_number : q \in ext.rows} = 1..Cardinality(ext.rows)

\* C17: when an Extract stage completes, the document's questions are
\* exactly the ones that stage created, numbered 1..N in extraction order,
\* and no Question or Answer row from before remains.
C17_ExtractReplaces ==
    [][\A r \in Runs :
          (ext.run[r].pc # "done" /\ ext'.run[r].pc = "done")
          => /\ \A q \in ext'.rows : q.run = r
             /\ {q.question_number : q \in ext'.rows} = 1..ext.run[r].n
             /\ Cardinality(ext'.rows) = ext.run[r].n
             /\ \A q1, q2 \in ext'.rows :
                   q1.question_number < q2.question_number => q1.id < q2.id
             /\ ext'.answers = {}]_vars

GenerationEnds(i) ==
    /\ ans.w[i].kind = "generate"
    /\ ans.w[i].pc # "done"
    /\ ans'.w[i].pc = "done"

\* C18: however generations, regenerations and retries for one question
\* interleave, the question has at most one Answer row, and a generation
\* that ends has put its text, confidence and sources into that one row.
C18_OneAnswerPerQuestion ==
    [][/\ Cardinality(ans'.rows) <= 1
       /\ \A i \in Writers :
             GenerationEnds(i)
             => \E r \in ans'.rows :
                   /\ ans'.rows = {r}
                   /\ r.answer_text = Generated(i)
                   /\ r.confidence_score = i
                   /\ r.source_documents = i]_vars

\* Every writer was a generation and all have ended: one row was inserted,
\* the others replaced its payload, and the first writer's payload is the
\* last one written.
C18_Witness ==
    /\ Cardinality(ans.rows) = 1
    /\ \A i \in Writers : ans.w[i].pc = "done" /\ ans.w[i].kind = "generate"
    /\ ans.nextId = 3
    /\ \E r \in ans.rows : r.id = 2 /\ r.answer_text = Generated(1)

\* C19: no Answer is left with edited = true and an answer_text that a
\* generation wrote over the manual edit.
C19_EditNotOverwritten ==
    \A r \in ans.rows : r.edited => r.answer_text.by = "manual"

\* The matches the vector search returned to this call (it is not made
\* without a client).
Matches == IF call.client THEN call.found ELSE <<>>

\* C20: whatever the language-model call does, a call whose vector search
\* returned at least one match returns a confidence in [0.40, 0.95] (0.40
\* when the average relevance is 0), and a confidence of 0.0 is returned
\* only when the search returned no match.
C20_ConfidenceBounds ==
    call.returned
    => /\ Matches # <<>>
          => /\ call.result.confidence \in 40..95
             /\ SumRelevance(Matches) = 0 => call.result.confidence = 40
       /\ call.result.confidence = 0 => Matches = <<>>

\* A call that reached the confidence computation, with the sum s of the
\* relevance scores of its n matches: avg_relevance = s / (200 n).
Scored == call.returned /\ call.result.answer = "generated"

\* 0.85 + (avg - 0.8) * 0.5 = (180 n + s) / (400 n), rounded to hundredths
TopBandValue(s, n) == Round2(180 * n + s, 400 * n)

\* C21: for every average relevance in [0.8, 1.0] the confidence is
\* 0.85 + (avg - 0.8) * 0.5 (rounded to two decimals) and lies in the range
\* 0.85 to 0.90.
C21_TopBand ==
    LET n == Len(call.found)
        s == SumRelevance(call.found)
    IN (Scored /\ s >= 160 * n)
       => /\ call.result.confidence \in TopBandValue(s, n)
          /\ call.result.confidence \in 85..90

\* C21, amended: for every average relevance in [0.8, 1.0] the confidence
\* is 0.85 + (avg - 0.8) * 0.5 (rounded to two decimals) and lies in the
\* range 0.85 to 0.95.
C21_TopBandTo95 ==
    LET n == Len(call.found)
        s == SumRelevance(call.found)
    IN (Scored /\ s >= 160 * n)
       => /\ call.result.confidence \in TopBandValue(s, n)
          /\ call.result.confidence \in 85..95

\* Two matches of average relevance 0.925: confidence 0.91.
C21_Witness ==
    /\ Scored
    /\ call.found = <<10, 20>>
    /\ call.result.confidence = 91

\* The averages 0.00, 0.01, ... 1.00, in 1/200.
AvgGrid == {2 * j : j \in 0..100}

\* C22: the confidence is monotonic in the average relevance, across the
\* band boundaries and after clamping and rounding: a smaller average on
\* the grid never scores higher than this call's, a larger one never lower.
C22_ScoreMonotonic ==
    LET n == Len(call.found)
        s == SumRelevance(call.found)
    IN Scored
       => \A k \in AvgGrid :
             /\ k * n < s => \A c \in Score(k, 1) : c <= call.result.confidence
             /\ k * n > s => \A c \in Score(k, 1) : c >= call.result.confidence

\* A call whose average relevance is exactly the band boundary 0.6.
C22_Witness ==
    /\ Scored
    /\ Len(call.found) >= 2
    /\ SumRelevance(call.found) = 120 * Len(call.found)
    /\ call.result.confidence = 70

\* clamp(1 - d / 2, 0, 1) for a distance d in hundredths, in 1/200
ClampedSimilarity(d) == Max(0, Min(200, 200 - d))

\* C23: every match with cosine distance d in [0, 2], d = 0 included, is
\* recorded with relevance_score clamp(1 - d/2, 0, 1): 1 for an exact match
\* and 0 for d = 2.
C23_DistanceToSimilarity ==
    Scored
    => \A k \in 1..Len(call.result.sources) :
          LET d == call.found[call.result.sources[k].match] IN
          d \in 0..200
          => call.result.sources[k].relevance_score = ClampedSimilarity(d)

\* C24: the sources returned by generate_answer are at most 3 and are the
\* matches in the rank order of the vector search: entry k is the match of
\* rank k, and a generated answer carries the first three matches (all of
\* them when fewer were found).
C24_TopThreeSources ==
    call.returned
    => /\ Len(call.result.sources) <= 3
       /\ Len(call.result.sources) <= Len(Matches)
       /\ \A k \in 1..Len(call.result.sources) :
             call.result.sources[k] = Source(call.found, k)
       /\ Scored => Len(call.result.sources) = Min(3, Len(call.found))

\* More matches than are kept.
C24_Witness ==
    /\ Scored
    /\ Len(call.found) = 4
    /\ Len(call.result.sources) = 3
    /\ call.found[1] # call.found[4]

\* C25: a task's result is non-null only if its status is completed, and
\* its error is non-empty only if its status is failed.
C25_ResultAndErrorMatchStatus ==
    \A d \in Deployments :
        /\ task[d].result.present => task[d].status = "completed"
        /\ task[d].error # "" => task[d].status = "failed"

\* A task that failed in Extract: the message is stored and no result is.
C25_Witness ==
    \E d \in Deployments :
        /\ task[d].status = "failed"
        /\ task[d].error = "No questions found in RFP document"
        /\ ~task[d].result.present

\* The Generate stage of a deployment: the attempts are out and the
\* pipeline has not gone on to Finalize.
InGenerate(d) == pc[d] \in {"bg_pool", "chord"}

\* No attempt is still to run: each ended in success or permanent failure.
AllAttemptsFinished(d) ==
    /\ N(d) > 0
    /\ \A i \in 1..N(d) : att[d][i].st \in {"ok", "failed"}

\* The completed counter: the nonlocal of process_single_question, the
\* count of Answer rows in generate_answer_for_question.
CompletedCounter(d) ==
    IF USE_CELERY(d) THEN Cardinality(answers[d]) ELSE completed_count[d]

\* C26: every attempt that finishes, in success or in permanent failure,
\* is counted once: when all N attempts of the Generate stage have finished
\* the completed counter is N and current_step reads 'Generated N/N answers'.
C26_EveryAttemptCounted ==
    \A d \in Deployments :
        (InGenerate(d) /\ AllAttemptsFinished(d))
        => /\ CompletedCounter(d) = N(d)
           /\ task[d].current_step = Step("Generated", N(d), N(d))

\* C27: a progress value written during the Generate stage is
\* 50 + floor(completed * 50 / N) for the counter value written with it, in
\* both deployments: 100 when completed = N and never below 50.
C27_GenerateProgressFormula ==
    \A d \in Deployments :
        (InGenerate(d) /\ task[d].current_step.label = "Generated")
        => /\ task[d].progress = 50 + (task[d].current_step.done * 50) \div N(d)
           /\ task[d].progress >= 50
           /\ task[d].current_step.done = N(d) => task[d].progress = 100

\* C28: an attempt whose execution fails is run again, up to 3 retries: it
\* is recorded as permanently failed only after 4 executions, never after
\* one, and never runs a fifth time, in both deployments.
C28_FailedAfterRetries ==
    \A d \in Deployments : \A i \in 1..N(d) :
        /\ att[d][i].retries <= MAX_RETRIES
        /\ att[d][i].st = "failed" => att[d][i].retries = MAX_RETRIES

\* C29: an exception raised in Extract, in the fan-in of Generate or in
\* Finalize, and not absorbed per item, ends the task with status failed and
\* its message in error, in both deployments: a pipeline that got as far as
\* Extract and ended without completing the task has failed it.
C29_UncaughtExceptionFailsTask ==
    \A d \in Deployments :
        (pc[d] = "done" /\ task[d].progress >= 40 /\ task[d].status # "completed")
        => /\ task[d].status = "failed"
           /\ task[d].error # ""

\* What the model-based extractor yields: nothing without a client or when
\* the call raises.
ModelQuestions ==
    IF call.client /\ ~call.reply.raises THEN ParseReply(call.reply.content)
    ELSE <<>>

\* C30: Extract fails for lack of questions only when the model-based
\* extractor and the regex fallback both yield none; when the model yields
\* none (raises, no client, empty) and the fallback finds a question, the
\* task goes on with the fallback's questions; and the fallback's result
\* has no question text twice and at most 50 questions.
C30_FallbackBeforeFailure ==
    call.returned
    => LET fallback == fallback_question_extraction(call.text) IN
       /\ call.failed => (ModelQuestions = <<>> /\ fallback = <<>>)
       /\ (ModelQuestions = <<>> /\ fallback # <<>>)
          => (~call.failed /\ call.questions = fallback)
       /\ Len(fallback) <= MAX_QUESTIONS
       /\ \A j, k \in 1..Len(fallback) :
             fallback[j].question = fallback[k].question => j = k

\* The model's reply has no usable line and the text has 51 different
\* questions and a repeated one: the task goes on with 50 of them.
C30_Witness ==
    /\ call.returned
    /\ call.client
    /\ ~call.reply.raises
    /\ ModelQuestions = <<>>
    /\ call.text = LongText(MaxLines, MAX_QUESTIONS + 1)
    /\ ~call.failed
    /\ Len(call.questions) = MAX_QUESTIONS

\* C31: process_knowledge_base_document re-runs a failing document at most
\* 3 times, and once the retries are used up it ends by returning the
\* failed result (reason 'max_retries'), never by raising to its caller.
C31_RetriesEndInFailedResult ==
    \A i \in Ingesters :
        ing.h[i].kind = "task"
        => /\ ing.h[i].retries <= DOC_MAX_RETRIES
           /\ ing.h[i].pc \notin {"start", "retry", "call", "save", "done"}
              => /\ ing.h[i].pc = "max_retries"
                 /\ ing.h[i].retries = DOC_MAX_RETRIES

\* C32: with every external call returning or raising and the workers
\* scheduled fairly, every task created eventually reaches status completed
\* or failed, in either deployment.
C32_TaskEventuallyEnds ==
    <>(\A d \in live : task[d].status \in Terminal)

\* C33: a persisted progress of 100 implies status completed with the result
\* present: no poll of the task sees progress 100 on a task that is still
\* processing.
C33_FullProgressMeansCompleted ==
    \A d \in Deployments :
        task[d].progress = 100
        => /\ task[d].status = "completed"
           /\ task[d].result.present

\* The handlers that found the document unprocessed and whose
\* process_document_for_rag is to submit, or has submitted, its chunks.
Submitters ==
    {i \in Ingesters : ing.h[i].seen = "unprocessed" /\ ing.h[i].rag = "ok"}

\* C34: across every interleaving of the handlers that name the same
\* unprocessed knowledge-base document, its chunks are submitted to the
\* vector index at most once: two handlers never both pass the processed
\* check for it.
C34_DocumentIngestedOnce ==
    ing.active => Cardinality(Submitters) <= 1

\* C35: a task that fails during Extract (no text, no questions, or an
\* error while the new questions are stored) leaves the document's stored
\* questions and their answers exactly as they were before it started.
\* Stated for a run that is alone on the document.
C35_ExtractAllOrNothing ==
    \A r \in Runs :
        (/\ ext.active
         /\ ext.run[r].pc = "failed"
         /\ \A o \in Runs \ {r} : ext.run[o].pc = "start")
        => /\ ext.rows = ext.prior.rows
           /\ ext.answers = ext.prior.answers

\* C36: when a task completes, a question extracted by the run has an
\* Answer row written by the run if and only if that answer is listed in
\* result.answers.
C36_SavedAnswersAreReported ==
    \A d \in Deployments :
        task[d].status = "completed"
        => AnswerIds(task[d].result)
              = {QuestionOf(d, i) : i \in 1..N(d)} \cap answers[d]

\* C37: clean_expired_tasks deletes only tasks whose status is completed or
\* failed: a task still pending or processing is never deleted.
C37_CleanupSparesRunningTasks ==
    [][\A t \in TaskIds :
          (sweep.active /\ sweep.row[t].exists /\ ~sweep'.row[t].exists)
          => sweep.row[t].status \in Terminal]_vars

\* C38: chunk_text terminates for every text and every
\* chunk_size > chunk_overlap >= 0: the start position strictly increases
\* on every iteration of the loop, wherever the paragraph and sentence
\* breaks of the text are.
C38_StartStrictlyIncreases ==
    [][(call.active /\ ~call.returned /\ ~call'.returned)
       => call'.start > call.start]_vars

\* The positions of the text that some returned chunk holds.
Covered == UNION {c.lo..(c.hi - 1) : c \in {call.chunks[k] : k \in 1..Len(call.chunks)}}

\* C39: the chunks chunk_text returns have at most chunk_size characters
\* and together cover the text: every position that holds a
\* non-whitespace character lies in some chunk.
C39_ChunksCoverText ==
    (call.active /\ call.returned)
    => /\ \A k \in 1..Len(call.chunks) :
             call.chunks[k].hi - call.chunks[k].lo <= call.chunk_size
       /\ \A p \in 0..(Len(call.text) - 1) :
             call.text[p + 1] \notin Whitespace => p \in Covered
====
